---------------------------- MODULE Spec2Model ----------------------------
(***************************************************************************)
(* Model of the Wii /dev/fs device (CWII_IPC_HLE_Device_fs): the vectored  *)
(* and scalar command entry points IOCtlV / IOCtl, Open, and DoState, the  *)
(* save / restore of the scratch directory /tmp.                           *)
(*                                                                         *)
(* Strings are sequences of character codes, so that std::string::compare, *)
(* Memory::GetString, Memory::Read_U32 on a path buffer and the sort of    *)
(* names are computed as the code computes them.  A host path is the       *)
(* sequence of its components below the session root; the root is <<>>.    *)
(***************************************************************************)
EXTENDS Integers, Sequences, FiniteSets, TLC

VARIABLES
    fs,          \* host tree below the session Wii root: host path -> entry
    m_is_active, \* set by Open
    last,        \* the last call: device entry point, request, buffers, result
    p,           \* the snapshot stream PointerWrap walks: records and read position
    saved,       \* the scratch tree as it was when the stream was written
    hw           \* HW::Init / Shutdown / DoState: the pass under way and the calls made

vars == <<fs, m_is_active, last, p, saved, hw>>

-----------------------------------------------------------------------------
(* Characters and strings *)

NUL == 0
DIR_SEP_CHR == 47
UNDERSCORE == 95

Min(a, b) == IF a < b THEN a ELSE b

\* s.compare(pos = 0, n, lit) == 0 : the first min(n, size) characters equal lit.
CompareEq(s, n, lit) == SubSeq(s, 1, Min(n, Len(s))) = lit

\* operator< of std::string on character codes.
RECURSIVE StrLess(_, _)
StrLess(a, b) ==
    IF b = << >> THEN FALSE
    ELSE IF a = << >> THEN TRUE
    ELSE IF Head(a) # Head(b) THEN Head(a) < Head(b)
    ELSE StrLess(Tail(a), Tail(b))

Zeros(n) == [i \in 1..n |-> NUL]

\* A fixed-width, NUL padded field holding the string s.
Field(s, width) == [i \in 1..width |-> IF i <= Len(s) THEN s[i] ELSE NUL]

\* strnlen: the number of bytes from mem[from] on, before the first NUL and
\* before mem[to + 1].
RECURSIVE StrNLen(_, _, _)
StrNLen(mem, from, to) ==
    IF from > to \/ mem[from] = NUL THEN 0 ELSE 1 + StrNLen(mem, from + 1, to)

\* Memory::GetString(address, size): the bytes of the field up to the first NUL.
GetString(mem, off, size) ==
    SubSeq(mem, off + 1, off + StrNLen(mem, off + 1, Min(off + size, Len(mem))))

\* Big-endian guest integers.
U32Bytes(v) ==
    << (v \div 16777216) % 256, (v \div 65536) % 256, (v \div 256) % 256, v % 256 >>

Read_U32(mem, off) ==
    mem[off + 1] * 16777216 + mem[off + 2] * 65536 + mem[off + 3] * 256 + mem[off + 4]

\* Memory::Write_U32 / memcpy into a guest buffer: bytes that fall past the end of
\* the modelled buffer land in guest memory the model does not hold.
WriteBytes(mem, off, bytes) ==
    [i \in 1..Len(mem) |->
        IF i > off /\ i <= off + Len(bytes) THEN bytes[i - off] ELSE mem[i]]

Write_U32(mem, off, v) == WriteBytes(mem, off, U32Bytes(v))

-----------------------------------------------------------------------------
(* Guest paths used by the requests *)

S_empty == << >>
S_relative == <<114, 101, 108, 97, 116, 105, 118, 101, 47, 112, 97, 116, 104>>
S_tmp == <<47, 116, 109, 112>>
S_tmp_a == <<47, 116, 109, 112, 47, 97>>
S_tmp_a_b == <<47, 116, 109, 112, 47, 97, 47, 98>>
S_tmp_b == <<47, 116, 109, 112, 47, 98>>
S_title1 == <<47, 116, 105, 116, 108, 101, 47, 48, 48, 48, 49, 48, 48, 48, 49>>
S_title1_abcd ==
    <<47, 116, 105, 116, 108, 101, 47, 48, 48, 48, 49, 48, 48, 48, 49, 47, 97, 98, 99, 100>>
S_title5 == <<47, 116, 105, 116, 108, 101, 47, 48, 48, 48, 49, 48, 48, 48, 53>>

N_tmp == <<116, 109, 112>>
N_a == <<97>>
N_b == <<98>>
N_tilde == <<95, 95, 55, 101, 95, 95>>   \* "__7e__", the escaped form of "~"

InvalidPaths == { S_empty, S_relative }
ValidPaths ==
    { S_tmp, S_tmp_a, S_tmp_a_b, S_tmp_b, S_title1, S_title1_abcd, S_title5 }
WiiPaths == InvalidPaths \cup ValidPaths

-----------------------------------------------------------------------------
(* Host file system primitives (Common/FileUtil, Common/NandPaths) *)

\* Integers here stay below 2^31, so a u64 is kept as the pair of its
\* value modulo 2^32 (low) and its number of whole multiples of 2^32 (over); the
\* model keeps every low part below 2^31.  The cast (u32)x keeps low.
U64(over, low) == [over |-> over, low |-> low]
Add64(a, b) == U64(a.over + b.over, a.low + b.low)
ToU32(x) == x.low

\* An entry of the host tree.  A file holds the bytes of data, followed by over
\* further runs of 2^32 bytes.
Dir == [isDirectory |-> TRUE, data |-> << >>, over |-> 0]
BigFile(data, over) == [isDirectory |-> FALSE, data |-> data, over |-> over]
File(data) == BigFile(data, 0)

Root == << >>
Parent(path) == SubSeq(path, 1, Len(path) - 1)
Leaf(path) == path[Len(path)]
IsPrefix(a, b) == Len(a) <= Len(b) /\ SubSeq(b, 1, Len(a)) = a
IsBelow(path, dir) == Len(dir) < Len(path) /\ IsPrefix(dir, path)

Exists(f, path) == path = Root \/ path \in DOMAIN f
IsDirectory(f, path) == path = Root \/ (path \in DOMAIN f /\ f[path].isDirectory)

ChildrenOf(f, dir) == { q \in DOMAIN f : Parent(q) = dir /\ Len(q) = Len(dir) + 1 }

Without(f, gone) == [q \in DOMAIN f \ gone |-> f[q]]
With(f, path, entry) == [q \in DOMAIN f \cup {path} |-> IF q = path THEN entry ELSE f[q]]

\* File::CreateDir: mkdir of one level; an existing path is left as it is.
CreateDir(f, path) ==
    IF ~Exists(f, path) /\ path # Root /\ IsDirectory(f, Parent(path))
    THEN With(f, path, Dir)
    ELSE f

\* File::CreateFullPath(fullPath): creates, outermost first, every directory named
\* by a prefix of fullPath that ends at a separator.  fullPath is the sequence of
\* its components; a trailing separator is a trailing empty component.
RECURSIVE CreatePrefixes(_, _, _)
CreatePrefixes(f, fullPath, n) ==
    IF n >= Len(fullPath) THEN f
    ELSE LET subPath == SubSeq(fullPath, 1, n)
         IN  CreatePrefixes(IF IsDirectory(f, subPath) THEN f ELSE CreateDir(f, subPath),
                            fullPath, n + 1)

Trimmed(fullPath) ==
    IF fullPath # << >> /\ Leaf(fullPath) = << >> THEN Parent(fullPath) ELSE fullPath

CreateFullPath(f, fullPath) ==
    IF Exists(f, Trimmed(fullPath)) THEN f ELSE CreatePrefixes(f, fullPath, 1)

\* File::Delete: unlinks a file.  A missing file counts as deleted (true), a
\* directory is refused (false).
Delete(f, path) ==
    IF ~Exists(f, path) THEN [ok |-> TRUE, fs |-> f]
    ELSE IF IsDirectory(f, path) THEN [ok |-> FALSE, fs |-> f]
    ELSE [ok |-> TRUE, fs |-> Without(f, {path})]

\* File::DeleteDir: rmdir, which refuses a non-directory and a non-empty directory.
DeleteDir(f, path) ==
    IF path # Root /\ IsDirectory(f, path) /\ ChildrenOf(f, path) = {}
    THEN [ok |-> TRUE, fs |-> Without(f, {path})]
    ELSE [ok |-> FALSE, fs |-> f]

\* File::DeleteDirRecursively: removes the directory and everything below it; a
\* path that cannot be opened as a directory is left alone.
DeleteDirRecursively(f, dir) ==
    IF dir # Root /\ IsDirectory(f, dir)
    THEN Without(f, { q \in DOMAIN f : IsPrefix(dir, q) })
    ELSE f

\* File::CreateEmptyFile / IOFile(name, "wb"): creates or truncates a regular file.
CanOpenForWrite(f, path) ==
    path # Root /\ IsDirectory(f, Parent(path)) /\ ~IsDirectory(f, path)

CreateEmptyFile(f, path) ==
    IF CanOpenForWrite(f, path)
    THEN [ok |-> TRUE, fs |-> With(f, path, File(<< >>))]
    ELSE [ok |-> FALSE, fs |-> f]

\* File::Rename: rename(2).  The source must exist and the destination's parent be
\* a directory; a file replaces a file, a directory replaces an empty directory,
\* and a directory cannot be moved below itself.  Renaming an existing path to
\* itself succeeds and does nothing.
CanRename(f, src, dst) ==
    /\ src # Root /\ dst # Root
    /\ Exists(f, src)
    /\ \/ src = dst
       \/ /\ IsDirectory(f, Parent(dst))
          /\ ~IsPrefix(src, Parent(dst))
          /\ Exists(f, dst) =>
               /\ IsDirectory(f, src) = IsDirectory(f, dst)
               /\ (IsDirectory(f, dst) => ChildrenOf(f, dst) = {})

Moved(q, src, dst) == dst \o SubSeq(q, Len(src) + 1, Len(q))

Rename(f, src, dst) ==
    IF ~CanRename(f, src, dst) THEN [ok |-> FALSE, fs |-> f]
    ELSE IF src = dst THEN [ok |-> TRUE, fs |-> f]
    ELSE LET moving == { q \in DOMAIN f : IsPrefix(src, q) }
             kept == Without(f, moving \cup {dst})
         IN  [ok |-> TRUE,
              fs |-> [q \in DOMAIN kept \cup { Moved(m, src, dst) : m \in moving } |->
                        IF IsPrefix(dst, q) THEN f[src \o SubSeq(q, Len(dst) + 1, Len(q))]
                        ELSE kept[q]]]

\* File content.  A file holds bytes of a content stream named by a seed; the
\* content is the sequence of extents [seed, off, len] (bytes off .. off+len-1 of
\* that stream), adjacent extents of one stream merged.  Two files have the same
\* bytes iff their extent sequences are equal.
Extent(seed, off, len) == [seed |-> seed, off |-> off, len |-> len]

AppendExtent(data, e) ==
    IF e.len = 0 THEN data
    ELSE IF data # << >> /\ data[Len(data)].seed = e.seed
                         /\ data[Len(data)].off + data[Len(data)].len = e.off
    THEN [data EXCEPT ![Len(data)].len = @ + e.len]
    ELSE Append(data, e)

RECURSIVE DataSize(_)
DataSize(data) == IF data = << >> THEN 0 ELSE Head(data).len + DataSize(Tail(data))

\* File::GetSize
GetSize(f, path) ==
    IF Exists(f, path) /\ ~IsDirectory(f, path)
    THEN U64(f[path].over, DataSize(f[path].data))
    ELSE U64(0, 0)

\* handle.ReadArray(buf, count) at file position pos: the bytes pos .. pos+count-1.
RECURSIVE ReadArray(_, _, _)
ReadArray(data, pos, count) ==
    IF count = 0 \/ data = << >> THEN << >>
    ELSE LET e == Head(data)
         IN  IF pos >= e.len THEN ReadArray(Tail(data), pos - e.len, count)
             ELSE LET n == Min(count, e.len - pos)
                  IN  <<Extent(e.seed, e.off + pos, n)>>
                        \o ReadArray(Tail(data), 0, count - n)

RECURSIVE WriteArray(_, _)
WriteArray(data, chunk) ==
    IF chunk = << >> THEN data
    ELSE WriteArray(AppendExtent(data, Head(chunk)), Tail(chunk))

-----------------------------------------------------------------------------
(* Names: escaping, the host path of a guest path, directory scans *)

HexDigits == <<48, 49, 50, 51, 52, 53, 54, 55, 56, 57, 97, 98, 99, 100, 101, 102>>

\* The value of a hexadecimal digit character, -1 when it is none.
HexValue(c) ==
    IF c >= 48 /\ c <= 57 THEN c - 48
    ELSE IF c >= 97 /\ c <= 102 THEN c - 87
    ELSE IF c >= 65 /\ c <= 70 THEN c - 55
    ELSE -1

\* Characters a host file name cannot hold: " * / : < > ? \ | and DEL, and controls.
IllegalChars == {34, 42, 47, 58, 60, 62, 63, 92, 124, 127}

\* Common::EscapeFileName: every illegal character c becomes "__XX__", XX the two
\* hexadecimal digits of c.
RECURSIVE EscapeFileName(_)
EscapeFileName(name) ==
    IF name = << >> THEN << >>
    ELSE LET c == Head(name)
         IN  (IF c \in IllegalChars \/ c < 32
              THEN <<UNDERSCORE, UNDERSCORE, HexDigits[(c \div 16) + 1],
                     HexDigits[(c % 16) + 1], UNDERSCORE, UNDERSCORE>>
              ELSE <<c>>) \o EscapeFileName(Tail(name))

\* Common::UnescapeFileName: every "__XX__" with XX two hexadecimal digits becomes
\* the character XX, scanning left to right.
RECURSIVE UnescapeFileName(_)
UnescapeFileName(name) ==
    IF name = << >> THEN << >>
    ELSE IF /\ Len(name) >= 6
            /\ name[1] = UNDERSCORE /\ name[2] = UNDERSCORE
            /\ name[5] = UNDERSCORE /\ name[6] = UNDERSCORE
            /\ HexValue(name[3]) >= 0 /\ HexValue(name[4]) >= 0
    THEN <<HexValue(name[3]) * 16 + HexValue(name[4])>>
            \o UnescapeFileName(SubSeq(name, 7, Len(name)))
    ELSE <<Head(name)>> \o UnescapeFileName(Tail(name))

\* The components of a guest path, split at the separators, empty ones dropped.
RECURSIVE SplitPath(_, _)
SplitPath(s, cur) ==
    IF s = << >> THEN (IF cur = << >> THEN << >> ELSE <<cur>>)
    ELSE IF Head(s) = DIR_SEP_CHR
    THEN (IF cur = << >> THEN << >> ELSE <<cur>>) \o SplitPath(Tail(s), << >>)
    ELSE SplitPath(Tail(s), Append(cur, Head(s)))

\* HLE_IPC_BuildFilename: the host path, below the session root, of a guest path,
\* each component escaped.
HLE_IPC_BuildFilename(wii_path) ==
    LET comps == SplitPath(wii_path, << >>)
    IN  [i \in 1..Len(comps) |-> EscapeFileName(comps[i])]

\* The order in which the host lists a directory is the host's business: the
\* model lets it be ascending or descending in the host names.
HostOrders == {"ascending", "descending"}

HostBefore(order, a, b) == IF order = "ascending" THEN StrLess(a, b) ELSE StrLess(b, a)

RECURSIVE Listed(_, _)
Listed(paths, order) ==
    IF paths = {} THEN << >>
    ELSE LET first == CHOOSE x \in paths :
                        \A y \in paths \ {x} : HostBefore(order, Leaf(x), Leaf(y))
         IN  <<first>> \o Listed(paths \ {first}, order)

RECURSIVE SumSizes(_)
SumSizes(entries) ==
    IF entries = << >> THEN U64(0, 0)
    ELSE Add64(IF Head(entries).isDirectory THEN Head(entries).size ELSE U64(0, 0),
               SumSizes(Tail(entries)))

\* File::ScanDirectoryTree(directory, recursive): the FSTEntry of a directory.  A
\* file's size is its length in bytes; a directory's size is the number of
\* entries the scan found below it.
RECURSIVE ScanDirectoryTree(_, _, _, _)
ScanDirectoryTree(f, directory, recursive, order) ==
    LET names == IF IsDirectory(f, directory)
                 THEN Listed(ChildrenOf(f, directory), order) ELSE << >>
        child(physical_name) ==
            IF IsDirectory(f, physical_name)
            THEN IF recursive
                 THEN [ScanDirectoryTree(f, physical_name, TRUE, order)
                         EXCEPT !.virtualName = Leaf(physical_name)]
                 ELSE [virtualName |-> Leaf(physical_name), physicalName |-> physical_name,
                       isDirectory |-> TRUE, size |-> U64(0, 0), children |-> << >>]
            ELSE [virtualName |-> Leaf(physical_name), physicalName |-> physical_name,
                  isDirectory |-> FALSE, size |-> GetSize(f, physical_name),
                  children |-> << >>]
        children == [i \in 1..Len(names) |-> child(names[i])]
    IN  [virtualName |-> << >>, physicalName |-> directory, isDirectory |-> TRUE,
         size |-> Add64(U64(0, Len(children)), SumSizes(children)), children |-> children]

-----------------------------------------------------------------------------
(* The device: result codes, path validation, usage accounting *)

IPC_SUCCESS == 0
FS_EINVAL == -4
FS_EEXIST == -105
FS_ENOENT == -106
FS_STATS_TOO_SMALL == -1017

ScalarOpcodes ==
    { "IOCTL_GET_STATS", "IOCTL_CREATE_DIR", "IOCTL_SET_ATTR", "IOCTL_GET_ATTR",
      "IOCTL_DELETE_FILE", "IOCTL_RENAME_FILE", "IOCTL_CREATE_FILE", "IOCTL_SHUTDOWN" }
VectoredOpcodes == { "IOCTLV_READ_DIR", "IOCTLV_GETUSAGE" }
UnknownOpcode == "UNKNOWN"

PATH_LEN == 64
NANDSTAT_SIZE == 28
ATTR_REPLY_SIZE == 76
CHUNK == 65536
BLOCK == 16384

\* A validation that lets every path through.
IsValidWiiPathAlways(path) == TRUE

IsValidWiiPath(path) == CompareEq(path, 1, <<DIR_SEP_CHR>>)

\* A total that leaves out the files of the subdirectories.
TotalOfDirectFiles(parentEntry) ==
    LET sizes == [i \in 1..Len(parentEntry.children) |->
                    IF parentEntry.children[i].isDirectory THEN U64(0, 0)
                    ELSE parentEntry.children[i].size]
        Sum[i \in 0..Len(sizes)] == IF i = 0 THEN U64(0, 0) ELSE Add64(Sum[i - 1], sizes[i])
    IN  Sum[Len(sizes)]

\* Get total filesize of contents of a directory (recursive).
RECURSIVE ComputeTotalFileSize(_)
RECURSIVE SumFileSizes(_)
SumFileSizes(entries) ==
    IF entries = << >> THEN U64(0, 0)
    ELSE Add64(IF Head(entries).isDirectory
               THEN ComputeTotalFileSize(Head(entries))
               ELSE Head(entries).size,
               SumFileSizes(Tail(entries)))

ComputeTotalFileSize(parentEntry) == SumFileSizes(parentEntry.children)

\* std::sort of the children on virtualName with operator<.
RECURSIVE InsertByName(_, _)
InsertByName(sorted, e) ==
    IF sorted = << >> THEN <<e>>
    ELSE IF StrLess(e.virtualName, Head(sorted).virtualName) THEN <<e>> \o sorted
    ELSE <<Head(sorted)>> \o InsertByName(Tail(sorted), e)

RECURSIVE SortByName(_)
SortByName(entries) ==
    IF entries = << >> THEN << >>
    ELSE InsertByName(SortByName(Tail(entries)), Head(entries))

Unescaped(entries) ==
    [i \in 1..Len(entries) |->
        [entries[i] EXCEPT !.virtualName = UnescapeFileName(entries[i].virtualName)]]

\* The loop of the listing: strcpy of each name and its terminator at pFilename,
\* for i < children.size() && i < MaxEntries.
RECURSIVE PackNames(_, _, _, _, _)
PackNames(buf, off, children, i, MaxEntries) ==
    IF ~(i < Len(children) /\ i < MaxEntries) THEN [buf |-> buf, numFiles |-> i]
    ELSE LET FileName == children[i + 1].virtualName
         IN  PackNames(WriteBytes(buf, off, Append(FileName, NUL)),
                       off + Len(FileName) + 1, children, i + 1, MaxEntries)

-----------------------------------------------------------------------------
(* IOCtlV: the vectored commands.  request.in_vectors are the input buffers,   *)
(* io the contents of the output buffers (request.io_vectors); the result is   *)
(* the return value, the file system and the output buffers after the call.    *)

Reply(ret, f, out) == [ret |-> ret, fs |-> f, out |-> out]

\* A READ_DIR that looks the path up on the host before it validates it.
ReadDirLooksUpFirst(f, request, io, order) ==
    LET relative_path == GetString(request.in_vectors[1], 0, Len(request.in_vectors[1]))
        DirName == HLE_IPC_BuildFilename(relative_path)
        entry == ScanDirectoryTree(f, DirName, FALSE, order)
    IN  IF ~Exists(f, DirName) THEN Reply(FS_ENOENT, f, io)
        ELSE IF ~IsValidWiiPath(relative_path) THEN Reply(FS_EINVAL, f, io)
        ELSE IF ~IsDirectory(f, DirName) THEN Reply(FS_EINVAL, f, io)
        ELSE Reply(IPC_SUCCESS, f,
                   [io EXCEPT ![1] = Write_U32(io[1], 0, Len(entry.children))])

\* A READ_DIR whose count mode scans the whole subtree and counts all of it.
ReadDirCountsAll(f, request, io, order) ==
    LET relative_path == GetString(request.in_vectors[1], 0, Len(request.in_vectors[1]))
        DirName == HLE_IPC_BuildFilename(relative_path)
        entry == ScanDirectoryTree(f, DirName, TRUE, order)
    IN  IF ~IsValidWiiPath(relative_path) THEN Reply(FS_EINVAL, f, io)
        ELSE IF ~Exists(f, DirName) THEN Reply(FS_ENOENT, f, io)
        ELSE IF ~IsDirectory(f, DirName) THEN Reply(FS_EINVAL, f, io)
        ELSE Reply(IPC_SUCCESS, f, [io EXCEPT ![1] = Write_U32(io[1], 0, ToU32(entry.size))])

ReadDir(f, request, io, order) ==
    LET relative_path == GetString(request.in_vectors[1], 0, Len(request.in_vectors[1]))
        DirName == HLE_IPC_BuildFilename(relative_path)
        entry == ScanDirectoryTree(f, DirName, FALSE, order)
    IN  IF ~IsValidWiiPath(relative_path) THEN Reply(FS_EINVAL, f, io)
        ELSE IF ~Exists(f, DirName) THEN Reply(FS_ENOENT, f, io)
        ELSE IF ~IsDirectory(f, DirName) THEN Reply(FS_EINVAL, f, io)
        ELSE IF Len(request.in_vectors) = 1 /\ Len(io) = 1
        THEN Reply(IPC_SUCCESS, f,
                   [io EXCEPT ![1] = Write_U32(io[1], 0, Len(entry.children))])
        ELSE LET children == SortByName(Unescaped(entry.children))
                 MaxEntries == Read_U32(request.in_vectors[1], 0)
                 packed == PackNames(Zeros(Len(io[1])), 0, children, 0, MaxEntries)
             IN  Reply(IPC_SUCCESS, f,
                       [io EXCEPT ![1] = packed.buf,
                                  ![2] = Write_U32(io[2], 0, packed.numFiles)])

\* x / d for a d that divides 2^32.
Div64(x, d) == U64(0, x.over * (65536 \div d) * 65536 + x.low \div d)

\* The special cases as a test of the first 15 characters only.
IsLegacyUsagePathPrefix(relativepath) ==
    \/ CompareEq(relativepath, 15, S_title1)
    \/ CompareEq(relativepath, 15, S_title5)

\* The two special cases taken over from sneek.
IsLegacyUsagePath(relativepath) ==
    \/ CompareEq(relativepath, 16, S_title1)
    \/ CompareEq(relativepath, 16, S_title5)

GetUsage(f, request, io, order) ==
    LET relativepath == GetString(request.in_vectors[1], 0, Len(request.in_vectors[1]))
        path == HLE_IPC_BuildFilename(relativepath)
        parentDir == ScanDirectoryTree(f, path, TRUE, order)
        usage ==
            IF IsDirectory(f, path)
            THEN IF IsLegacyUsagePath(relativepath)
                 THEN [fsBlocks |-> 23, iNodes |-> 42]
                 ELSE [fsBlocks |-> ToU32(Div64(ComputeTotalFileSize(parentDir), BLOCK)),
                       iNodes |-> 1 + ToU32(parentDir.size)]
            ELSE [fsBlocks |-> 0, iNodes |-> 0]
    IN  IF ~IsValidWiiPath(relativepath) THEN Reply(FS_EINVAL, f, io)
        ELSE Reply(IPC_SUCCESS, f,
                   [io EXCEPT ![1] = Write_U32(io[1], 0, usage.fsBlocks),
                              ![2] = Write_U32(io[2], 0, usage.iNodes)])

\* default: the request is dumped and return_value keeps its initial value.
UnknownV(f, request, io) == Reply(IPC_SUCCESS, f, io)

IOCtlV(f, request, io, order) ==
    IF request.request = "IOCTLV_READ_DIR" THEN ReadDir(f, request, io, order)
    ELSE IF request.request = "IOCTLV_GETUSAGE" THEN GetUsage(f, request, io, order)
    ELSE UnknownV(f, request, io)

-----------------------------------------------------------------------------
(* IOCtl / ExecuteCommand: the scalar commands.  request.buffer_in is the      *)
(* input buffer, out the content of the output buffer of buffer_out_size bytes.*)

U16Bytes(v) == << (v \div 256) % 256, v % 256 >>

\* A u32 as the host holds it in memory (the supported hosts are little-endian).
HostU32Bytes(v) ==
    << v % 256, (v \div 256) % 256, (v \div 65536) % 256, (v \div 16777216) % 256 >>

\* The static NANDStat record: BlockSize, FreeUserBlocks, UsedUserBlocks,
\* FreeSysBlocks, UsedSysBlocks, Free_INodes, Used_Inodes.
NANDStat == << 16384, 24044, 7636, 16, 752, 5227, 916 >>

RECURSIVE Flatten(_)
Flatten(seqs) == IF seqs = << >> THEN << >> ELSE Head(seqs) \o Flatten(Tail(seqs))

NANDStatBytes == Flatten([i \in 1..Len(NANDStat) |-> HostU32Bytes(NANDStat[i])])

\* A GET_STATS that writes the record whatever the size of the output buffer.
GetStatsAnySize(f, request, out) == Reply(IPC_SUCCESS, f, WriteBytes(out, 0, NANDStatBytes))

GetStats(f, request, out) ==
    IF request.buffer_out_size < NANDSTAT_SIZE THEN Reply(FS_STATS_TOO_SMALL, f, out)
    ELSE Reply(IPC_SUCCESS, f, WriteBytes(out, 0, NANDStatBytes))

CreateDirCmd(f, request, out) ==
    LET wii_path == GetString(request.buffer_in, 6, PATH_LEN)
        DirName == Append(HLE_IPC_BuildFilename(wii_path), << >>)
    IN  IF ~IsValidWiiPath(wii_path) THEN Reply(FS_EINVAL, f, out)
        ELSE Reply(IPC_SUCCESS, CreateFullPath(f, DirName), out)

SetAttr(f, request, out) ==
    LET wii_path == GetString(request.buffer_in, 6, PATH_LEN)
    IN  IF ~IsValidWiiPath(wii_path) THEN Reply(FS_EINVAL, f, out)
        ELSE Reply(IPC_SUCCESS, f, out)

\* A GET_ATTR reply that echoes the path string, padded, in place of the 64 bytes
\* of the input buffer.
AttrReplyOfString(buffer_in) ==
    U32Bytes(0) \o U16Bytes(12337) \o Field(GetString(buffer_in, 0, PATH_LEN), PATH_LEN)
        \o <<3, 3, 3, 0>>

\* The reply of GET_ATTR: OwnerID, GroupID, the 64 bytes of the input buffer,
\* OwnerPerm, GroupPerm, OtherPerm, Attributes.
AttrReply(buffer_in) ==
    U32Bytes(0) \o U16Bytes(12337) \o SubSeq(buffer_in, 1, PATH_LEN) \o <<3, 3, 3, 0>>

GetAttr(f, request, out) ==
    LET wii_path == GetString(request.buffer_in, 0, PATH_LEN)
        Filename == HLE_IPC_BuildFilename(wii_path)
    IN  IF ~IsValidWiiPath(wii_path) THEN Reply(FS_EINVAL, f, out)
        ELSE IF ~IsDirectory(f, Filename) /\ ~Exists(f, Filename)
        THEN Reply(FS_ENOENT, f, out)
        ELSE IF request.buffer_out_size = ATTR_REPLY_SIZE
        THEN Reply(IPC_SUCCESS, f, WriteBytes(out, 0, AttrReply(request.buffer_in)))
        ELSE Reply(IPC_SUCCESS, f, out)

\* A DELETE_FILE that reports a deletion that did not happen.
DeleteFileReportsFailure(f, request, out) ==
    LET wii_path == GetString(request.buffer_in, 0, PATH_LEN)
        Filename == HLE_IPC_BuildFilename(wii_path)
        asFile == Delete(f, Filename)
        asDir == DeleteDir(f, Filename)
    IN  IF ~IsValidWiiPath(wii_path) THEN Reply(FS_EINVAL, f, out)
        ELSE IF asFile.ok THEN Reply(IPC_SUCCESS, asFile.fs, out)
        ELSE IF asDir.ok THEN Reply(IPC_SUCCESS, asDir.fs, out)
        ELSE Reply(FS_ENOENT, f, out)

DeleteFile(f, request, out) ==
    LET wii_path == GetString(request.buffer_in, 0, PATH_LEN)
        Filename == HLE_IPC_BuildFilename(wii_path)
        asFile == Delete(f, Filename)
        asDir == DeleteDir(f, Filename)
    IN  IF ~IsValidWiiPath(wii_path) THEN Reply(FS_EINVAL, f, out)
        ELSE IF asFile.ok THEN Reply(IPC_SUCCESS, asFile.fs, out)
        ELSE IF asDir.ok THEN Reply(IPC_SUCCESS, asDir.fs, out)
        ELSE Reply(IPC_SUCCESS, f, out)

\* A RENAME_FILE that deletes an existing destination without looking for the
\* source.
RenameFileClearsTarget(f, request, out) ==
    LET wii_path == GetString(request.buffer_in, 0, PATH_LEN)
        Filename == HLE_IPC_BuildFilename(wii_path)
        wii_path_rename == GetString(request.buffer_in, PATH_LEN, PATH_LEN)
        FilenameRename == HLE_IPC_BuildFilename(wii_path_rename)
        based == CreateFullPath(f, FilenameRename)
        cleared == IF Exists(based, FilenameRename)
                   THEN Delete(based, FilenameRename).fs
                   ELSE based
        renamed == Rename(cleared, Filename, FilenameRename)
    IN  IF ~IsValidWiiPath(wii_path) THEN Reply(FS_EINVAL, f, out)
        ELSE IF ~IsValidWiiPath(wii_path_rename) THEN Reply(FS_EINVAL, f, out)
        ELSE IF renamed.ok THEN Reply(IPC_SUCCESS, renamed.fs, out)
        ELSE Reply(FS_ENOENT, renamed.fs, out)

\* A RENAME_FILE that hands File::Rename its two paths the wrong way round.
RenameFileSwapped(f, request, out) ==
    LET wii_path == GetString(request.buffer_in, 0, PATH_LEN)
        Filename == HLE_IPC_BuildFilename(wii_path)
        wii_path_rename == GetString(request.buffer_in, PATH_LEN, PATH_LEN)
        FilenameRename == HLE_IPC_BuildFilename(wii_path_rename)
        based == CreateFullPath(f, FilenameRename)
        cleared == IF Exists(based, Filename) /\ Exists(based, FilenameRename)
                   THEN Delete(based, FilenameRename).fs
                   ELSE based
        renamed == Rename(cleared, FilenameRename, Filename)
    IN  IF ~IsValidWiiPath(wii_path) THEN Reply(FS_EINVAL, f, out)
        ELSE IF ~IsValidWiiPath(wii_path_rename) THEN Reply(FS_EINVAL, f, out)
        ELSE IF renamed.ok THEN Reply(IPC_SUCCESS, renamed.fs, out)
        ELSE Reply(FS_ENOENT, renamed.fs, out)

RenameFile(f, request, out) ==
    LET wii_path == GetString(request.buffer_in, 0, PATH_LEN)
        Filename == HLE_IPC_BuildFilename(wii_path)
        wii_path_rename == GetString(request.buffer_in, PATH_LEN, PATH_LEN)
        FilenameRename == HLE_IPC_BuildFilename(wii_path_rename)
        based == CreateFullPath(f, FilenameRename)
        cleared == IF Exists(based, Filename) /\ Exists(based, FilenameRename)
                   THEN Delete(based, FilenameRename).fs
                   ELSE based
        renamed == Rename(cleared, Filename, FilenameRename)
    IN  IF ~IsValidWiiPath(wii_path) THEN Reply(FS_EINVAL, f, out)
        ELSE IF ~IsValidWiiPath(wii_path_rename) THEN Reply(FS_EINVAL, f, out)
        ELSE IF renamed.ok THEN Reply(IPC_SUCCESS, renamed.fs, out)
        ELSE Reply(FS_ENOENT, renamed.fs, out)

\* A CREATE_FILE that does not look for an existing entry and truncates it.
CreateFileTruncates(f, request, out) ==
    LET wii_path == GetString(request.buffer_in, 6, PATH_LEN)
        Filename == HLE_IPC_BuildFilename(wii_path)
        created == CreateEmptyFile(CreateFullPath(f, Filename), Filename)
    IN  IF ~IsValidWiiPath(wii_path) THEN Reply(FS_EINVAL, f, out)
        ELSE IF ~created.ok THEN Reply(FS_EINVAL, created.fs, out)
        ELSE Reply(IPC_SUCCESS, created.fs, out)

CreateFile(f, request, out) ==
    LET wii_path == GetString(request.buffer_in, 6, PATH_LEN)
        Filename == HLE_IPC_BuildFilename(wii_path)
        based == CreateFullPath(f, Filename)
        created == CreateEmptyFile(based, Filename)
    IN  IF ~IsValidWiiPath(wii_path) THEN Reply(FS_EINVAL, f, out)
        ELSE IF Exists(f, Filename) THEN Reply(FS_EEXIST, f, out)
        ELSE IF ~created.ok THEN Reply(FS_EINVAL, created.fs, out)
        ELSE Reply(IPC_SUCCESS, created.fs, out)

\* IOCTL_SHUTDOWN and the default case leave the switch and reach the final
\* return FS_EINVAL.
Shutdown(f, request, out) == Reply(FS_EINVAL, f, out)
UnknownScalar(f, request, out) == Reply(FS_EINVAL, f, out)

ExecuteCommand(f, request, out) ==
    CASE request.request = "IOCTL_GET_STATS" -> GetStats(f, request, out)
      [] request.request = "IOCTL_CREATE_DIR" -> CreateDirCmd(f, request, out)
      [] request.request = "IOCTL_SET_ATTR" -> SetAttr(f, request, out)
      [] request.request = "IOCTL_GET_ATTR" -> GetAttr(f, request, out)
      [] request.request = "IOCTL_DELETE_FILE" -> DeleteFile(f, request, out)
      [] request.request = "IOCTL_RENAME_FILE" -> RenameFile(f, request, out)
      [] request.request = "IOCTL_CREATE_FILE" -> CreateFile(f, request, out)
      [] request.request = "IOCTL_SHUTDOWN" -> Shutdown(f, request, out)
      [] OTHER -> UnknownScalar(f, request, out)

\* Memory::Memset(request.buffer_out, 0, request.buffer_out_size)
Memset(out, size) == [i \in 1..Len(out) |-> IF i <= size THEN NUL ELSE out[i]]

\* An IOCtl that leaves the output buffer as it finds it.
IOCtlNoMemset(f, request, out) == ExecuteCommand(f, request, out)

IOCtl(f, request, out) ==
    ExecuteCommand(f, request, Memset(out, request.buffer_out_size))

-----------------------------------------------------------------------------
(* Open and DoState.  The snapshot stream is the sequence of records p.Do      *)
(* writes: [type, name, size, data], type 'd', 'f' or 0; a file record's data  *)
(* is the flat run of bytes its DoArray calls wrote.                           *)

TYPE_DIR == 100
TYPE_FILE == 102
TYPE_END == 0

\* GetUserPath(D_SESSION_WIIROOT_IDX) + "/tmp"
Path == <<N_tmp>>

Open(f) == CreateDir(DeleteDirRecursively(f, Path), Path)

Record(type, name, size, data) == [type |-> type, name |-> name, size |-> size, data |-> data]

\* The save loop over one file: count bytes in chunks of 64 KiB, the last one short.
RECURSIVE SaveChunks(_, _, _, _)
SaveChunks(content, pos, count, written) ==
    IF count > CHUNK
    THEN SaveChunks(content, pos + CHUNK, count - CHUNK,
                    WriteArray(written, ReadArray(content, pos, CHUNK)))
    ELSE WriteArray(written, ReadArray(content, pos, count))

SaveEntry(f, entry) ==
    LET name == SubSeq(entry.physicalName, Len(Path) + 1, Len(entry.physicalName))
        size == ToU32(entry.size)
    IN  IF entry.isDirectory THEN Record(TYPE_DIR, name, 0, << >>)
        ELSE Record(TYPE_FILE, name, size,
                    SaveChunks(f[entry.physicalName].data, 0, size, << >>))

\* A save that writes the children of a directory before the directory itself.
RECURSIVE SaveLoopChildrenFirst(_, _, _)
SaveLoopChildrenFirst(f, todo, stream) ==
    IF todo = << >> THEN stream
    ELSE LET entry == Head(todo)
         IN  SaveLoopChildrenFirst(f, Tail(todo),
                 Append(SaveLoopChildrenFirst(f, entry.children, stream),
                        SaveEntry(f, entry)))

\* while (!todo.empty()): write the front entry, queue its children at the back.
RECURSIVE SaveLoop(_, _, _)
SaveLoop(f, todo, stream) ==
    IF todo = << >> THEN stream
    ELSE LET entry == Head(todo)
         IN  SaveLoop(f,
                      IF entry.isDirectory THEN Tail(todo) \o entry.children ELSE Tail(todo),
                      Append(stream, SaveEntry(f, entry)))

DoStateWrite(f, order) ==
    LET parentEntry == ScanDirectoryTree(f, Path, TRUE, order)
    IN  Append(SaveLoop(f, parentEntry.children, << >>), Record(TYPE_END, << >>, 0, << >>))

\* The restore loop over one file record, writing what it reads to the handle.
RECURSIVE RestoreChunks(_, _, _, _)
RestoreChunks(data, pos, count, written) ==
    IF count > CHUNK
    THEN RestoreChunks(data, pos + CHUNK, count - CHUNK,
                       WriteArray(written, ReadArray(data, pos, CHUNK)))
    ELSE WriteArray(written, ReadArray(data, pos, count))

RestoreRecord(f, rec) ==
    LET name == Path \o rec.name
    IN  IF rec.type = TYPE_DIR THEN CreateDir(f, name)
        ELSE IF rec.type = TYPE_FILE
        THEN IF CanOpenForWrite(f, name)
             THEN With(f, name, File(RestoreChunks(rec.data, 0, rec.size, << >>)))
             ELSE f
        ELSE f

\* A restore loop that does not stop at the zero type but at the end of the buffer.
RECURSIVE RestoreLoopNoBreak(_, _, _, _)
RestoreLoopNoBreak(f, buffer, pos, orphan) ==
    IF pos > Len(buffer) THEN [fs |-> f, pos |-> pos - 1, orphan |-> orphan]
    ELSE RestoreLoopNoBreak(RestoreRecord(f, buffer[pos]), buffer, pos + 1, orphan)

\* while (1): read a type, stop at zero, else read and apply the record.  The
\* result is the file system, the number of records read and whether a record
\* found the parent directory of its path missing.
RECURSIVE RestoreLoop(_, _, _, _)
RestoreLoop(f, buffer, pos, orphan) ==
    IF pos > Len(buffer) THEN [fs |-> f, pos |-> pos - 1, orphan |-> orphan]
    ELSE LET rec == buffer[pos]
         IN  IF rec.type = TYPE_END THEN [fs |-> f, pos |-> pos, orphan |-> orphan]
             ELSE RestoreLoop(RestoreRecord(f, rec), buffer, pos + 1,
                              orphan \/ ~IsDirectory(f, Parent(Path \o rec.name)))

\* A restore that does not wipe the scratch directory first.
DoStateReadNoWipe(f, buffer) == RestoreLoop(f, buffer, 1, FALSE)

DoStateRead(f, buffer) ==
    RestoreLoop(CreateDir(DeleteDirRecursively(f, Path), Path), buffer, 1, FALSE)

\* The scratch tree: the entries below Path, by their path relative to it.
ScratchTree(f) ==
    LET below == { q \in DOMAIN f : IsBelow(q, Path) }
    IN  [r \in { SubSeq(q, Len(Path) + 1, Len(q)) : q \in below } |-> f[Path \o r]]

-----------------------------------------------------------------------------
(* Requests *)

\* What an output buffer holds before the call: stale guest memory.
Stale(n) == [i \in 1..n |-> 170]

NamesBufSize == 8
MaxCap == 3

AttrValues ==
    { [OwnerID |-> 0, GroupID |-> 0, Perm |-> 0, Attributes |-> 0],
      [OwnerID |-> 4096, GroupID |-> 12344, Perm |-> 1, Attributes |-> 2] }

\* ownerId(4) + groupId(2) + path(64) + ownerPerm + groupPerm + otherPerm + attributes
AttrBuffer(a, path) ==
    U32Bytes(a.OwnerID) \o U16Bytes(a.GroupID) \o Field(path, PATH_LEN)
        \o <<a.Perm, a.Perm, a.Perm, a.Attributes>>

\* ownerId(4) + groupId(2) + path(64) + 9 bytes + attributes
DirBuffer(a, path) ==
    U32Bytes(a.OwnerID) \o U16Bytes(a.GroupID) \o Field(path, PATH_LEN)
        \o Zeros(9) \o <<a.Attributes>>

\* A path field the guest has used before: what follows the terminator of the
\* string is what an earlier, longer string left there.
UsedField(path, width) ==
    [i \in 1..width |->
        IF i <= Len(path) THEN path[i] ELSE IF i = Len(path) + 1 THEN NUL ELSE 170]

\* A call is described by its opcode and the fields the guest put in its buffers;
\* ScalarRequest / VectoredRequest lay the buffers out as the guest does.
NoAttr == CHOOSE a \in AttrValues : a.OwnerID = 0

Call(opcode, path, path2, attr, size, cap) ==
    [request |-> opcode, path |-> path, path2 |-> path2, attr |-> attr,
     size |-> size, cap |-> cap]

WritePaths == InvalidPaths \cup { S_tmp, S_tmp_a, S_tmp_a_b, S_tmp_b }
RenamePaths == { S_relative, S_tmp_a, S_tmp_a_b, S_tmp_b }

ScalarCalls ==
    { Call("IOCTL_GET_STATS", << >>, << >>, NoAttr, n, 0) :
        n \in {10, NANDSTAT_SIZE, NANDSTAT_SIZE + 4} }
    \cup { Call("IOCTL_CREATE_DIR", w, << >>, NoAttr, 0, 0) : w \in WritePaths }
    \cup { Call("IOCTL_SET_ATTR", w, << >>, a, 0, 0) : a \in AttrValues, w \in WritePaths }
    \cup { Call("IOCTL_GET_ATTR", w, << >>, NoAttr, n, 0) :
             w \in WritePaths, n \in {ATTR_REPLY_SIZE, ATTR_REPLY_SIZE + 4} }
    \cup { Call("IOCTL_DELETE_FILE", w, << >>, NoAttr, 0, 0) : w \in WritePaths }
    \cup { Call("IOCTL_RENAME_FILE", w, v, NoAttr, 0, 0) :
             w \in RenamePaths, v \in RenamePaths }
    \cup { Call("IOCTL_CREATE_FILE", w, << >>, NoAttr, 0, 0) : w \in WritePaths }
    \cup { Call("IOCTL_SHUTDOWN", << >>, << >>, NoAttr, 0, 0) }
    \cup { Call(UnknownOpcode, << >>, << >>, NoAttr, 4, 0) }

ScalarRequest(c) ==
    [request |-> c.request,
     buffer_in |->
        CASE c.request = "IOCTL_CREATE_DIR" -> DirBuffer(c.attr, c.path)
          [] c.request \in {"IOCTL_SET_ATTR", "IOCTL_CREATE_FILE"} -> AttrBuffer(c.attr, c.path)
          [] c.request = "IOCTL_GET_ATTR" -> UsedField(c.path, PATH_LEN)
          [] c.request = "IOCTL_DELETE_FILE" -> Field(c.path, PATH_LEN)
          [] c.request = "IOCTL_RENAME_FILE" ->
                Field(c.path, PATH_LEN) \o Field(c.path2, PATH_LEN)
          [] OTHER -> << >>,
     buffer_out_size |-> c.size]

\* cap = -1: READ_DIR in count mode (one input vector, one output vector).
VectoredCalls ==
    { Call("IOCTLV_READ_DIR", w, << >>, NoAttr, 0, cap) : w \in WiiPaths, cap \in -1..MaxCap }
    \cup { Call("IOCTLV_GETUSAGE", w, << >>, NoAttr, 0, 0) : w \in WiiPaths }
    \cup { Call(UnknownOpcode, << >>, << >>, NoAttr, 0, 0) }

VectoredRequest(c) ==
    [request |-> c.request,
     in_vectors |->
        IF c.request = "IOCTLV_READ_DIR" /\ c.cap >= 0
        THEN <<Field(c.path, PATH_LEN), U32Bytes(c.cap)>>
        ELSE IF c.request \in VectoredOpcodes THEN <<Field(c.path, PATH_LEN)>>
        ELSE << >>,
     io_sizes |->
        IF c.request = "IOCTLV_READ_DIR" /\ c.cap >= 0 THEN <<NamesBufSize, 4>>
        ELSE IF c.request = "IOCTLV_GETUSAGE" THEN <<4, 4>>
        ELSE <<4>>]

StaleVectors(sizes) == [i \in 1..Len(sizes) |-> Stale(sizes[i])]

-----------------------------------------------------------------------------
(* HW::Init, HW::Shutdown and HW::DoState: the calls each makes, in order.     *)
(* A call is the subsystem and the function called on it.                      *)

HWCall(sub, call) == [sub |-> sub, call |-> call]

InitCalls(bWii) ==
    << HWCall("CoreTiming", "Init"), HWCall("SystemTimers", "PreInit"),
       HWCall("State", "Init"),
       HWCall("AudioInterface", "Init"), HWCall("VideoInterface", "Init"),
       HWCall("SerialInterface", "Init"), HWCall("ProcessorInterface", "Init"),
       HWCall("ExpansionInterface", "Init"), HWCall("Memory", "Init"),
       HWCall("DSP", "Init"), HWCall("DVDInterface", "Init"),
       HWCall("GPFifo", "Init"), HWCall("CPU", "Init"),
       HWCall("SystemTimers", "Init") >>
    \o (IF bWii
        THEN << HWCall("WiiRoot", "Init"), HWCall("cUIDsys", "UpdateLocation"),
                HWCall("CSharedContent", "UpdateLocation"),
                HWCall("IOS", "Init"), HWCall("IOS::HLE", "Init") >>
        ELSE << >>)

\* A Shutdown that releases Memory ahead of everything else.
ShutdownCallsMemoryFirst(bWii) ==
    << HWCall("Memory", "Shutdown") >>
    \o (IF bWii
        THEN << HWCall("IOS::HLE", "Shutdown"), HWCall("IOS", "Shutdown"),
                HWCall("WiiRoot", "Shutdown") >>
        ELSE << >>)
    \o << HWCall("SystemTimers", "Shutdown"), HWCall("CPU", "Shutdown"),
          HWCall("DVDInterface", "Shutdown"), HWCall("DSP", "Shutdown"),
          HWCall("ExpansionInterface", "Shutdown"),
          HWCall("SerialInterface", "Shutdown"), HWCall("AudioInterface", "Shutdown"),
          HWCall("State", "Shutdown"), HWCall("CoreTiming", "Shutdown") >>

ShutdownCalls(bWii) ==
    (IF bWii
     THEN << HWCall("IOS::HLE", "Shutdown"), HWCall("IOS", "Shutdown"),
             HWCall("WiiRoot", "Shutdown") >>
     ELSE << >>)
    \o << HWCall("SystemTimers", "Shutdown"), HWCall("CPU", "Shutdown"),
          HWCall("DVDInterface", "Shutdown"), HWCall("DSP", "Shutdown"),
          HWCall("Memory", "Shutdown"), HWCall("ExpansionInterface", "Shutdown"),
          HWCall("SerialInterface", "Shutdown"), HWCall("AudioInterface", "Shutdown"),
          HWCall("State", "Shutdown"), HWCall("CoreTiming", "Shutdown") >>

\* Each subsystem's DoState is followed by its marker.
DoStateCalls(bWii) ==
    << HWCall("Memory", "DoState"), HWCall("VideoInterface", "DoState"),
       HWCall("SerialInterface", "DoState"), HWCall("ProcessorInterface", "DoState"),
       HWCall("DSP", "DoState"), HWCall("DVDInterface", "DoState"),
       HWCall("GPFifo", "DoState"), HWCall("ExpansionInterface", "DoState"),
       HWCall("AudioInterface", "DoState") >>
    \o (IF bWii
        THEN << HWCall("IOS", "DoState"), HWCall("IOS::HLE", "DoState") >>
        ELSE << >>)
    \o << HWCall("WIIHW", "DoMarker") >>

\* The hardware before any boot: no pass under way, nothing called.
HWOff == [bWii |-> FALSE, pass |-> "off", boots |-> 0,
          inits |-> << >>, states |-> << >>, downs |-> << >>]

-----------------------------------------------------------------------------
(* The state machine *)

Content(seed, size) == AppendExtent(<< >>, Extent(seed, 0, size))

P_a == <<N_tmp, N_a>>
P_a_b == <<N_tmp, N_a, N_b>>
P_b == <<N_tmp, N_b>>
P_tilde == <<N_tmp, N_tilde>>
P_title == << <<116, 105, 116, 108, 101>> >>
P_title1 == Append(P_title, <<48, 48, 48, 49, 48, 48, 48, 49>>)
P_title5 == Append(P_title, <<48, 48, 48, 49, 48, 48, 48, 53>>)
P_title1_abcd == Append(P_title1, <<97, 98, 99, 100>>)

Tree(entries) == [q \in { e[1] : e \in entries } |->
                    (CHOOSE e \in entries : e[1] = q)[2]]

EmptyNand == Tree({})
FreshNand == Tree({ <<Path, Dir>> })
UsedNand ==
    Tree({ <<Path, Dir>>, <<P_a, Dir>>, <<P_a_b, File(Content(P_a_b, 65537))>>,
           <<P_b, File(Content(P_b, 16383))>>, <<P_tilde, File(Content(P_tilde, 1))>>,
           <<P_title, Dir>>, <<P_title1, Dir>>,
           <<P_title1_abcd, Dir>>,
           <<Append(P_title1_abcd, N_a), File(Content(P_title1, 65536))>>,
           <<P_title5, Dir>> })

InitTrees == { EmptyNand, FreshNand, UsedNand }

NoCall == [dev |-> "none", request |-> Call("", << >>, << >>, NoAttr, 0, 0),
           before |-> << >>, pre |-> << >>, out |-> << >>, ret |-> IPC_SUCCESS]
NoStream == [stream |-> << >>, pos |-> 0, orphan |-> FALSE]

Init ==
    /\ fs \in InitTrees
    /\ m_is_active = FALSE
    /\ last = NoCall
    /\ p = NoStream
    /\ saved = << >>
    /\ hw = HWOff

\* The device handles one command at a time: last is the reply on its way to the
\* guest, and the next call comes once the transport has delivered it.
Idle == last.dev = "none"

\* Renames can nest directories without end; the model stops at MaxDepth levels.
MaxDepth == 4
WithinDepth(f) == \A q \in DOMAIN f : Len(q) <= MaxDepth

\* The reply on its way: the call, the file system and the output buffers as
\* they were before it, the output buffers after it and the return value.
Called(dev, call, before, pre, reply) ==
    [dev |-> dev, request |-> call, before |-> before, pre |-> pre,
     out |-> reply.out, ret |-> reply.ret]

IOCtlStep ==
    \E call \in ScalarCalls :
        LET request == ScalarRequest(call)
            pre == Stale(request.buffer_out_size)
            reply == IOCtl(fs, request, pre)
        IN  /\ Idle
            /\ WithinDepth(reply.fs)
            /\ fs' = reply.fs
            /\ last' = Called("IOCtl", call, fs, pre, reply)
            /\ UNCHANGED <<m_is_active, p, saved, hw>>

IOCtlVStep ==
    \E call \in VectoredCalls, order \in HostOrders :
        LET request == VectoredRequest(call)
            pre == StaleVectors(request.io_sizes)
            reply == IOCtlV(fs, request, pre, order)
        IN  /\ Idle
            /\ fs' = reply.fs
            /\ last' = Called("IOCtlV", call, fs, pre, reply)
            /\ UNCHANGED <<m_is_active, p, saved, hw>>

OpenStep ==
    /\ Idle
    /\ fs' = Open(fs)
    /\ m_is_active' = TRUE
    /\ last' = [NoCall EXCEPT !.dev = "Open", !.before = fs]
    /\ UNCHANGED <<p, saved, hw>>

\* The transport delivers the reply to the guest (GetFSReply's delay has passed).
Deliver ==
    /\ ~Idle
    /\ last' = NoCall
    /\ UNCHANGED <<fs, m_is_active, p, saved, hw>>

Next == IOCtlStep \/ IOCtlVStep \/ OpenStep \/ Deliver

Spec == Init /\ [][Next]_vars

-----------------------------------------------------------------------------
(* The snapshot machine: the scratch directory is saved, the guest runs on,    *)
(* and a saved stream is restored.                                             *)

\* File sizes of the scratch trees: 0, 1, 64 KiB, 64 KiB + 1, 128 KiB, 4 GiB + 1.
ScratchSizes ==
    { U64(0, 0), U64(0, 1), U64(0, CHUNK), U64(0, CHUNK + 1), U64(0, 2 * CHUNK), U64(1, 1) }

FileAt(q, size) == <<q, BigFile(Content(q, size.low), size.over)>>

Under_a ==
    { {} } \cup { {FileAt(P_a, z)} : z \in ScratchSizes }
    \cup { {<<P_a, Dir>>} \cup x :
             x \in { {}, {<<P_a_b, Dir>>} } \cup { {FileAt(P_a_b, z)} : z \in ScratchSizes } }
Under_b == { {}, {<<P_b, Dir>>} } \cup { {FileAt(P_b, z)} : z \in ScratchSizes }

ScratchFile == Tree({ <<Path, File(<< >>)>> })

ScratchTrees ==
    { Tree({<<Path, Dir>>} \cup a \cup b) : a \in Under_a, b \in Under_b }
    \cup { EmptyNand, ScratchFile }

\* What the guest may have left in the scratch directory when a stream is loaded.
LaterTrees ==
    { EmptyNand, FreshNand, ScratchFile,
      Tree({ <<Path, Dir>>, FileAt(P_a, U64(0, 1)), <<P_b, Dir>>,
             <<Append(P_b, N_b), Dir>>, FileAt(P_tilde, U64(0, CHUNK)) }),
      Tree({ <<Path, Dir>>, <<P_a, Dir>>, <<P_a_b, Dir>>,
             FileAt(Append(P_a_b, N_a), U64(0, 1)), FileAt(P_b, U64(0, 2 * CHUNK)) }) }

\* What follows this device's records in the snapshot: the state of the next
\* device, here bytes that read as a directory record.
Following == << Record(TYPE_DIR, <<N_tilde>>, 0, << >>) >>

InitState ==
    /\ fs \in ScratchTrees
    /\ m_is_active = TRUE
    /\ last = NoCall
    /\ p = NoStream
    /\ saved = << >>
    /\ hw = HWOff

StateCall(mode, f) ==
    [dev |-> "DoState", request |-> Call(mode, << >>, << >>, NoAttr, 0, 0),
     before |-> << >>,
     pre |-> [tree |-> ScratchTree(f), isFile |-> Exists(f, Path) /\ ~IsDirectory(f, Path)],
     out |-> << >>, ret |-> IPC_SUCCESS]

SaveStep ==
    \E order \in HostOrders :
        /\ Idle
        /\ p' = [stream |-> DoStateWrite(fs, order), pos |-> 0, orphan |-> FALSE]
        /\ saved' = ScratchTree(fs)
        /\ last' = StateCall("MODE_WRITE", fs)
        /\ UNCHANGED <<fs, m_is_active, hw>>

RestoreStep ==
    LET restored == DoStateRead(fs, p.stream \o Following)
    IN  /\ Idle
        /\ p.stream # << >>
        /\ fs' = restored.fs
        /\ p' = [p EXCEPT !.pos = restored.pos, !.orphan = restored.orphan]
        /\ last' = StateCall("MODE_READ", fs)
        /\ UNCHANGED <<m_is_active, saved, hw>>

\* The guest runs on between snapshots and leaves the scratch directory changed.
GuestRuns ==
    /\ Idle
    /\ fs' \in LaterTrees
    /\ UNCHANGED <<m_is_active, last, p, saved, hw>>

NextState == SaveStep \/ RestoreStep \/ GuestRuns \/ Deliver

SpecState == InitState /\ [][NextState]_vars

-----------------------------------------------------------------------------
(* Claims about the snapshot of the scratch directory *)

AfterRestore == last.dev = "DoState" /\ last.request.request = "MODE_READ"

\* Every file of the tree is shorter than 2^32 bytes.
FitsU32(tree) == \A r \in DOMAIN tree : tree[r].over = 0

\* C1 as stated: after a restore the scratch tree is the tree that was saved,
\* paths, kinds and bytes, whatever the files' sizes and whatever the scratch
\* directory held before the restore.
C1_RoundTripAnySize ==
    (AfterRestore /\ ~last.pre.isFile) => ScratchTree(fs) = saved

\* C1 amended: the same, for saved trees whose files are all shorter than 2^32
\* bytes (the length a file record carries is a u32); the scratch root is then a
\* directory and nothing that existed only before the restore is left.
C1_RoundTrip ==
    (AfterRestore /\ ~last.pre.isFile /\ FitsU32(saved)) =>
        /\ IsDirectory(fs, Path)
        /\ ScratchTree(fs) = saved
        /\ \A r \in DOMAIN last.pre.tree \ DOMAIN saved : ~Exists(fs, Path \o r)

C1_Witness ==
    /\ AfterRestore /\ ~last.pre.isFile /\ FitsU32(saved)
    /\ <<N_a, N_b>> \in DOMAIN saved
    /\ ~saved[<<N_a, N_b>>].isDirectory
    /\ DataSize(saved[<<N_a, N_b>>].data) = CHUNK
    /\ <<N_b>> \in DOMAIN saved
    /\ DataSize(saved[<<N_b>>].data) = 2 * CHUNK
    /\ <<N_tilde>> \in DOMAIN last.pre.tree
    /\ ScratchTree(fs) = saved

SentinelIndexes(stream) == { i \in 1..Len(stream) : stream[i].type = TYPE_END }

\* C2: a written stream holds exactly one record of type zero, its last, with no
\* name and no payload; a restore has read the records up to that one and none of
\* what follows it.
C2_Sentinel ==
    p.stream # << >> =>
        /\ SentinelIndexes(p.stream) = { Len(p.stream) }
        /\ p.stream[Len(p.stream)] = Record(TYPE_END, << >>, 0, << >>)
        /\ p.pos \in {0, Len(p.stream)}
        /\ AfterRestore => p.pos = Len(p.stream)

C2_Witness ==
    /\ AfterRestore
    /\ Len(p.stream) >= 4
    /\ p.pos = Len(p.stream)
    /\ ~Exists(fs, Path \o Following[1].name)

-----------------------------------------------------------------------------
(* Claims about the commands *)

IsCall(dev, opcode) == last.dev = dev /\ last.request.request = opcode
IsCommand == last.dev \in {"IOCtl", "IOCtlV"}

StartsWithSep(w) == w # << >> /\ w[1] = DIR_SEP_CHR

PathOpcodes == (ScalarOpcodes \ {"IOCTL_GET_STATS", "IOCTL_SHUTDOWN"}) \cup VectoredOpcodes
IsPathCommand == IsCommand /\ last.request.request \in PathOpcodes

\* The paths the command carries: two for RENAME_FILE, one otherwise.
PathsOfCall ==
    IF last.request.request = "IOCTL_RENAME_FILE"
    THEN {last.request.path, last.request.path2}
    ELSE {last.request.path}

HostOfCall == HLE_IPC_BuildFilename(last.request.path)

\* C4: a path-bearing command one of whose paths does not start with '/' returns
\* EINVAL and leaves the host tree as it was; a command whose paths all start with
\* '/' is not turned down by the validation, whether or not the paths exist (it
\* returns EINVAL only where READ_DIR finds a file or CREATE_FILE cannot create).
C4_InvalidPath ==
    /\ \A w \in WiiPaths : IsValidWiiPath(w) <=> StartsWithSep(w)
    /\ (IsPathCommand /\ \E w \in PathsOfCall : ~StartsWithSep(w)) =>
          (last.ret = FS_EINVAL /\ fs = last.before)
    /\ (IsPathCommand /\ \A w \in PathsOfCall : StartsWithSep(w)) =>
          (last.ret = FS_EINVAL =>
              \/ /\ IsCall("IOCtlV", "IOCTLV_READ_DIR")
                 /\ Exists(last.before, HostOfCall) /\ ~IsDirectory(last.before, HostOfCall)
              \/ /\ IsCall("IOCtl", "IOCTL_CREATE_FILE")
                 /\ ~Exists(last.before, HostOfCall) /\ ~Exists(fs, HostOfCall))

C4_Witness ==
    /\ IsCall("IOCtl", "IOCTL_RENAME_FILE")
    /\ last.request.path = S_tmp_a /\ Exists(last.before, P_a)
    /\ last.request.path2 = S_relative
    /\ last.ret = FS_EINVAL /\ fs = last.before

Failed == IsCommand /\ last.ret # IPC_SUCCESS

\* C5 as stated: after a command that failed every output buffer holds the bytes
\* it held before the call.
C5_NoOutputOnFailure == Failed => last.out = last.pre

\* C5 amended: after a vectored command that failed every output buffer holds the
\* bytes it held before the call; after a scalar command that failed the output
\* buffer holds buffer_out_size zero bytes, and none of the reply.
C5_FailureOutput ==
    Failed =>
        IF last.dev = "IOCtlV" THEN last.out = last.pre
        ELSE last.out = Zeros(last.request.size)

C5_Witness ==
    /\ IsCall("IOCtl", "IOCTL_GET_ATTR")
    /\ last.request.size = ATTR_REPLY_SIZE
    /\ last.ret = FS_ENOENT
    /\ last.pre = Stale(ATTR_REPLY_SIZE)
    /\ last.out = Zeros(ATTR_REPLY_SIZE)

\* C6: a command with an unrecognized opcode returns EINVAL, on either entry
\* point, and leaves the file system as it was.
C6_UnknownOpcode ==
    (IsCommand /\ last.request.request = UnknownOpcode) =>
        (last.ret = FS_EINVAL /\ fs = last.before)

Descendants(f, dir) == { q \in DOMAIN f : IsBelow(q, dir) }

RECURSIVE TotalBytes(_, _)
TotalBytes(f, paths) ==
    IF paths = {} THEN 0
    ELSE LET q == CHOOSE x \in paths : TRUE
         IN  (IF f[q].isDirectory THEN 0 ELSE DataSize(f[q].data))
                + TotalBytes(f, paths \ {q})

UsageReply(blocks, inodes) == <<U32Bytes(blocks), U32Bytes(inodes)>>

\* The usage of a directory: one inode for itself and one for each descendant,
\* and the whole 16 KiB blocks in the bytes of the files below it.
RealUsage(f, dir) ==
    UsageReply(TotalBytes(f, Descendants(f, dir)) \div BLOCK,
               1 + Cardinality(Descendants(f, dir)))

LegacyPaths == { S_title1, S_title5 }
HasLegacyPrefix(w) == \E l \in LegacyPaths : IsPrefix(l, w)

\* C7 as stated: GETUSAGE on a path that begins with a legacy prefix returns
\* success, blocks 23 and inodes 42, whether or not the directory exists.
C7_LegacyPrefixOverride ==
    (IsCall("IOCtlV", "IOCTLV_GETUSAGE") /\ HasLegacyPrefix(last.request.path)) =>
        (last.ret = IPC_SUCCESS /\ last.out = UsageReply(23, 42))

\* C7 amended: GETUSAGE on a path that is one of the two legacy paths and names an
\* existing directory returns success, blocks 23 and inodes 42, whatever the
\* directory holds; on a legacy path that is no existing directory it returns
\* success with 0 and 0, and a longer path below a legacy path is accounted like
\* any other path.
C7_LegacyOverride ==
    (IsCall("IOCtlV", "IOCTLV_GETUSAGE") /\ HasLegacyPrefix(last.request.path)) =>
        /\ last.ret = IPC_SUCCESS
        /\ fs = last.before
        /\ last.out =
              IF ~IsDirectory(last.before, HostOfCall) THEN UsageReply(0, 0)
              ELSE IF last.request.path \in LegacyPaths THEN UsageReply(23, 42)
              ELSE RealUsage(last.before, HostOfCall)

C7_Witness ==
    /\ IsCall("IOCtlV", "IOCTLV_GETUSAGE")
    /\ last.request.path = S_title1
    /\ IsDirectory(last.before, HostOfCall)
    /\ Cardinality(Descendants(last.before, HostOfCall)) = 2
    /\ last.out = UsageReply(23, 42)

\* C8: GETUSAGE on a valid path outside the legacy prefixes returns success and
\* writes, for an existing directory, 1 + the number of its descendants as inodes
\* and the whole 16 KiB blocks of the summed sizes of the files below it as
\* blocks; for a file or a missing path, 0 and 0.
C8_Usage ==
    (/\ IsCall("IOCtlV", "IOCTLV_GETUSAGE")
     /\ StartsWithSep(last.request.path)
     /\ ~HasLegacyPrefix(last.request.path)) =>
        /\ last.ret = IPC_SUCCESS
        /\ last.out = IF IsDirectory(last.before, HostOfCall)
                      THEN RealUsage(last.before, HostOfCall)
                      ELSE UsageReply(0, 0)

C8_Witness ==
    /\ IsCall("IOCtlV", "IOCTLV_GETUSAGE")
    /\ last.request.path = S_tmp
    /\ \E q \in Descendants(last.before, Path) :
          Len(q) = 3 /\ ~last.before[q].isDirectory /\ DataSize(last.before[q].data) > CHUNK
    /\ last.ret = IPC_SUCCESS
    /\ last.out = UsageReply(5, 5)

IsCountMode == IsCall("IOCtlV", "IOCTLV_READ_DIR") /\ last.request.cap < 0
IsListingMode == IsCall("IOCtlV", "IOCTLV_READ_DIR") /\ last.request.cap >= 0

\* C9: READ_DIR in count mode on an existing directory returns success and
\* writes the number of direct children, whatever lies deeper.
C9_CountMode ==
    (IsCountMode /\ StartsWithSep(last.request.path)
        /\ IsDirectory(last.before, HostOfCall)) =>
        /\ last.ret = IPC_SUCCESS
        /\ last.out = <<U32Bytes(Cardinality(ChildrenOf(last.before, HostOfCall)))>>

C9_Witness ==
    /\ IsCountMode
    /\ last.request.path = S_tmp
    /\ Cardinality(ChildrenOf(last.before, Path)) = 3
    /\ Cardinality(Descendants(last.before, Path)) = 4
    /\ last.ret = IPC_SUCCESS
    /\ last.out = <<U32Bytes(3)>>

\* The unescaped names of the children, in ascending order.
RECURSIVE Ascending(_)
Ascending(names) ==
    IF names = {} THEN << >>
    ELSE LET least == CHOOSE x \in names : \A y \in names \ {x} : StrLess(x, y)
         IN  <<least>> \o Ascending(names \ {least})

ChildNames(f, dir) == Ascending({ UnescapeFileName(Leaf(q)) : q \in ChildrenOf(f, dir) })

Terminated(names) == Flatten([i \in 1..Len(names) |-> Append(names[i], NUL)])

\* C10: READ_DIR in listing mode on an existing directory returns success, leaves
\* the names buffer holding the first min(maxEntries, childCount) unescaped names
\* in ascending order, each NUL-terminated, and zeros after them, and writes the
\* number of those names, never more than the cap the caller supplied.
C10_Listing ==
    (IsListingMode /\ StartsWithSep(last.request.path)
        /\ IsDirectory(last.before, HostOfCall)) =>
        LET names == ChildNames(last.before, HostOfCall)
            n == Min(last.request.cap, Len(names))
        IN  /\ last.ret = IPC_SUCCESS
            /\ last.out[2] = U32Bytes(n)
            /\ last.out[1] =
                  WriteBytes(Zeros(NamesBufSize), 0, Terminated(SubSeq(names, 1, n)))

\* C11: READ_DIR, in either mode, returns EINVAL for an invalid path, ENOENT for
\* a valid path that does not exist and EINVAL for a valid path that is a regular
\* file, the checks made in that order; only a valid path naming an existing
\* directory returns success.  The host tree is left as it was.
C11_ReadDirErrors ==
    IsCall("IOCtlV", "IOCTLV_READ_DIR") =>
        /\ fs = last.before
        /\ last.ret =
              IF ~StartsWithSep(last.request.path) THEN FS_EINVAL
              ELSE IF HostOfCall \notin DOMAIN last.before /\ HostOfCall # Root THEN FS_ENOENT
              ELSE IF HostOfCall # Root /\ ~last.before[HostOfCall].isDirectory THEN FS_EINVAL
              ELSE IPC_SUCCESS

C11_Witness ==
    /\ IsListingMode
    /\ last.request.path = S_tmp_a_b
    /\ P_a_b \in DOMAIN last.before /\ ~last.before[P_a_b].isDirectory
    /\ last.ret = FS_EINVAL
    /\ last.out = last.pre

\* The directories above a host path, the root left out.
Ancestors(path) == { SubSeq(path, 1, n) : n \in 1..(Len(path) - 1) }

\* The tree f with the directories of dirs that it lacks, and entry at path.
WithNew(f, dirs, path, entry) ==
    [q \in DOMAIN f \cup dirs \cup {path} |->
        IF q = path THEN entry ELSE IF q \in DOMAIN f THEN f[q] ELSE Dir]

\* C12: CREATE_FILE on a valid path that exists (file or directory) returns EEXIST
\* and leaves the tree, the entry and its content as they were; on a valid path
\* that does not exist it creates the missing parent directories and an empty
\* file and returns success, or returns EINVAL when the file cannot be created (an
\* ancestor is a regular file).  After a success the same CREATE_FILE returns
\* EEXIST and changes nothing.
C12_CreateFile ==
    (IsCall("IOCtl", "IOCTL_CREATE_FILE") /\ StartsWithSep(last.request.path)) =>
        LET again == IOCtl(fs, ScalarRequest(last.request), last.pre)
        IN  IF Exists(last.before, HostOfCall)
            THEN last.ret = FS_EEXIST /\ fs = last.before
            ELSE IF \E a \in Ancestors(HostOfCall) :
                        a \in DOMAIN last.before /\ ~last.before[a].isDirectory
            THEN last.ret = FS_EINVAL /\ fs = last.before
            ELSE /\ last.ret = IPC_SUCCESS
                 /\ fs = WithNew(last.before, Ancestors(HostOfCall), HostOfCall, File(<< >>))
                 /\ GetSize(fs, HostOfCall) = U64(0, 0)
                 /\ again.ret = FS_EEXIST /\ again.fs = fs

C12_Witness ==
    /\ IsCall("IOCtl", "IOCTL_CREATE_FILE")
    /\ last.request.path = S_tmp_a_b
    /\ P_a_b \in DOMAIN last.before
    /\ DataSize(last.before[P_a_b].data) = CHUNK + 1
    /\ last.ret = FS_EEXIST
    /\ fs[P_a_b] = last.before[P_a_b]

IsRename ==
    /\ IsCall("IOCtl", "IOCTL_RENAME_FILE")
    /\ \A w \in PathsOfCall : StartsWithSep(w)

RenameSource == HLE_IPC_BuildFilename(last.request.path)
RenameTarget == HLE_IPC_BuildFilename(last.request.path2)

\* What a tree holds at a path: the entry and everything below it, by its path
\* relative to that path.
SubtreeAt(f, at) ==
    [r \in { SubSeq(q, Len(at) + 1, Len(q)) : q \in { x \in DOMAIN f : IsPrefix(at, x) } } |->
        f[at \o r]]

\* C13 as stated: RENAME_FILE with two valid paths returns ENOENT when the source
\* does not exist; when the source and the destination (another path) both
\* exist it succeeds, after which the source path no longer exists and the
\* destination holds what the source held.
C13_RenameOverExisting ==
    IsRename =>
        IF ~Exists(last.before, RenameSource) THEN last.ret = FS_ENOENT
        ELSE (Exists(last.before, RenameTarget) /\ RenameTarget # RenameSource) =>
                /\ last.ret = IPC_SUCCESS
                /\ ~Exists(fs, RenameSource)
                /\ SubtreeAt(fs, RenameTarget) = SubtreeAt(last.before, RenameSource)

\* C13 amended: RENAME_FILE with two valid paths returns ENOENT when the source
\* does not exist; when the source exists and the destination is an existing
\* regular file, other than the source and not below it, the destination is
\* deleted and the rename succeeds, after which the source path no longer exists
\* and the destination holds what the source held; when the destination is the
\* source itself, a regular file, the file is deleted and the command returns
\* ENOENT.
C13_RenameOverFile ==
    IsRename =>
        /\ ~Exists(last.before, RenameSource) => last.ret = FS_ENOENT
        /\ (/\ Exists(last.before, RenameSource)
            /\ RenameTarget \in DOMAIN last.before
            /\ ~last.before[RenameTarget].isDirectory
            /\ RenameTarget # RenameSource
            /\ ~IsPrefix(RenameSource, RenameTarget)) =>
                /\ last.ret = IPC_SUCCESS
                /\ ~Exists(fs, RenameSource)
                /\ SubtreeAt(fs, RenameTarget) = SubtreeAt(last.before, RenameSource)
        /\ (/\ RenameTarget = RenameSource
            /\ RenameSource \in DOMAIN last.before
            /\ ~last.before[RenameSource].isDirectory) =>
                /\ last.ret = FS_ENOENT
                /\ ~Exists(fs, RenameSource)

C13_Witness ==
    /\ IsRename
    /\ last.request.path = S_tmp_b /\ last.request.path2 = S_tmp_a_b
    /\ P_b \in DOMAIN last.before /\ P_a_b \in DOMAIN last.before
    /\ DataSize(last.before[P_b].data) = BLOCK - 1
    /\ DataSize(last.before[P_a_b].data) = CHUNK + 1
    /\ last.ret = IPC_SUCCESS
    /\ P_b \notin DOMAIN fs
    /\ fs[P_a_b] = last.before[P_b]

\* C14: DELETE_FILE on a valid path returns success in every case.  A regular
\* file is deleted, an empty directory is deleted, and a missing path or a
\* directory that cannot be removed (it has children) leaves the tree as it was.
C14_DeleteFile ==
    (IsCall("IOCtl", "IOCTL_DELETE_FILE") /\ StartsWithSep(last.request.path)) =>
        /\ last.ret = IPC_SUCCESS
        /\ fs = IF HostOfCall \notin DOMAIN last.before THEN last.before
                ELSE IF ~last.before[HostOfCall].isDirectory
                THEN [q \in DOMAIN last.before \ {HostOfCall} |-> last.before[q]]
                ELSE IF Descendants(last.before, HostOfCall) = {}
                THEN [q \in DOMAIN last.before \ {HostOfCall} |-> last.before[q]]
                ELSE last.before

C14_Witness ==
    /\ IsCall("IOCtl", "IOCTL_DELETE_FILE")
    /\ last.request.path = S_tmp_a
    /\ IsDirectory(last.before, P_a)
    /\ P_a_b \in DOMAIN last.before
    /\ last.ret = IPC_SUCCESS
    /\ fs = last.before

\* The 32-bit integer a NANDStat field holds at an offset of the reply, read as
\* the record was copied (std::memcpy of the struct).
StatField(mem, off) ==
    mem[off + 1] + mem[off + 2] * 256 + mem[off + 3] * 65536 + mem[off + 4] * 16777216

\* blockSize, freeUserBlocks, usedUserBlocks, freeSysBlocks, usedSysBlocks,
\* freeInodes, usedInodes: 0x4000, 0x5DEC, 0x1DD4, 0x10, 0x02F0, 0x146B, 0x0394.
CannedStats == << 16384, 24044, 7636, 16, 752, 5227, 916 >>

\* C15: GET_STATS with an output buffer of fewer than 28 bytes returns -1017 and
\* writes no record; with 28 bytes or more it returns success and the buffer
\* holds the seven fixed values, whatever the file system holds and whatever ran
\* before.  The file system is left as it was.
C15_GetStats ==
    IsCall("IOCtl", "IOCTL_GET_STATS") =>
        /\ fs = last.before
        /\ IF last.request.size < 28
           THEN last.ret = -1017 /\ last.out = Zeros(last.request.size)
           ELSE /\ last.ret = IPC_SUCCESS
                /\ \A i \in 1..7 : StatField(last.out, 4 * (i - 1)) = CannedStats[i]

C15_Witness ==
    /\ IsCall("IOCtl", "IOCTL_GET_STATS")
    /\ last.request.size = 28
    /\ DOMAIN last.before # {}
    /\ last.ret = IPC_SUCCESS
    /\ StatField(last.out, 0) = 16384 /\ StatField(last.out, 24) = 916

\* C16: GET_ATTR with a 76-byte output buffer on a valid path that exists (file
\* or directory) returns success and writes ownerId 0, groupId 0x3031, the 64
\* bytes of the input path field as they are, ownerPerm = groupPerm = otherPerm =
\* 3 and attributes 0 (74 bytes), whatever commands (SET_ATTR among them) ran
\* before; on a
\* valid path that does not exist it returns ENOENT.  SET_ATTR returns success
\* for every valid path.  Neither changes the file system.
C16_Attributes ==
    /\ (/\ IsCall("IOCtl", "IOCTL_GET_ATTR")
        /\ StartsWithSep(last.request.path)
        /\ last.request.size = 76) =>
            /\ fs = last.before
            /\ IF Exists(last.before, HostOfCall)
               THEN /\ last.ret = IPC_SUCCESS
                    /\ Len(last.out) = 76
                    /\ SubSeq(last.out, 1, 74) =
                          <<0, 0, 0, 0, 48, 49>>
                              \o ScalarRequest(last.request).buffer_in
                              \o <<3, 3, 3, 0>>
               ELSE last.ret = FS_ENOENT
    /\ (IsCall("IOCtl", "IOCTL_SET_ATTR") /\ StartsWithSep(last.request.path)) =>
            (last.ret = IPC_SUCCESS /\ fs = last.before)

C16_Witness ==
    /\ IsCall("IOCtl", "IOCTL_GET_ATTR")
    /\ last.request.path = S_tmp_b /\ last.request.size = 76
    /\ P_b \in DOMAIN last.before /\ ~last.before[P_b].isDirectory
    /\ last.ret = IPC_SUCCESS
    /\ SubSeq(last.out, 1, 6) = <<0, 0, 0, 0, 48, 49>>
    /\ SubSeq(last.out, 7, 14) = <<47, 116, 109, 112, 47, 98, 0, 170>>
    /\ SubSeq(last.out, 71, 74) = <<3, 3, 3, 0>>

\* C17: CREATE_DIR on a valid path returns success and creates the directory
\* with every missing ancestor: afterwards the path and each of its ancestors is
\* an existing directory and nothing else has changed, and the same CREATE_DIR
\* again returns success and leaves the tree as it is.
C17_CreateDir ==
    (IsCall("IOCtl", "IOCTL_CREATE_DIR") /\ StartsWithSep(last.request.path)) =>
        LET again == IOCtl(fs, ScalarRequest(last.request), last.pre)
        IN  /\ last.ret = IPC_SUCCESS
            /\ \A d \in Ancestors(HostOfCall) \cup {HostOfCall} : IsDirectory(fs, d)
            /\ \A q \in DOMAIN last.before : q \in DOMAIN fs /\ fs[q] = last.before[q]
            /\ DOMAIN fs \subseteq DOMAIN last.before \cup Ancestors(HostOfCall) \cup {HostOfCall}
            /\ again.ret = IPC_SUCCESS /\ again.fs = fs

\* C18: the scalar SHUTDOWN command is acknowledged with success and leaves the
\* file system as it was.
C18_Shutdown ==
    IsCall("IOCtl", "IOCTL_SHUTDOWN") =>
        (last.ret = IPC_SUCCESS /\ fs = last.before)

\* C19: a bad buffer size is returned to the guest as an error: GET_ATTR on an
\* existing valid path with an output buffer of a size other than 76 bytes does
\* not return success.
C19_BadBufferSize ==
    (/\ IsCall("IOCtl", "IOCTL_GET_ATTR")
     /\ StartsWithSep(last.request.path)
     /\ Exists(last.before, HostOfCall)
     /\ last.request.size # 76) =>
        last.ret # IPC_SUCCESS

\* C20: Open returns success, marks the device active and leaves the scratch
\* directory /tmp existing and empty whatever it held before; the entries outside
\* /tmp are as they were.
C20_Open ==
    last.dev = "Open" =>
        /\ last.ret = IPC_SUCCESS
        /\ m_is_active
        /\ Path \in DOMAIN fs /\ fs[Path].isDirectory
        /\ Descendants(fs, Path) = {}
        /\ \A q \in (DOMAIN fs \cup DOMAIN last.before) \ {Path} :
              ~IsPrefix(Path, q) =>
                  (q \in DOMAIN fs /\ q \in DOMAIN last.before /\ fs[q] = last.before[q])

\* C21: a RENAME_FILE whose source does not exist destroys nothing: every entry
\* that existed before the command, an existing destination file among them,
\* exists after it with the same content, and what the command adds is at most
\* the missing parent directories of the destination.
C21_RenameFrame ==
    (IsRename /\ ~Exists(last.before, RenameSource)) =>
        /\ last.ret = FS_ENOENT
        /\ \A q \in DOMAIN last.before : q \in DOMAIN fs /\ fs[q] = last.before[q]
        /\ \A q \in DOMAIN fs \ DOMAIN last.before :
              q \in Ancestors(RenameTarget) /\ fs[q] = Dir

C21_Witness ==
    /\ IsRename
    /\ last.request.path = S_tmp_b /\ last.request.path2 = S_tmp_a_b
    /\ P_b \notin DOMAIN last.before
    /\ P_a_b \in DOMAIN last.before
    /\ DataSize(last.before[P_a_b].data) = CHUNK + 1
    /\ last.ret = FS_ENOENT
    /\ fs = last.before

-----------------------------------------------------------------------------
(* The hardware machine: the emulator boots (HW::Init), may take snapshots     *)
(* (HW::DoState) while it runs, and stops (HW::Shutdown).  Each step is the    *)
(* next call of the function under way; hw logs the calls of the current boot. *)

\* Boots followed in one behaviour.
MaxBoots == 2

InitHW ==
    /\ fs = FreshNand
    /\ m_is_active = FALSE
    /\ last = NoCall
    /\ p = NoStream
    /\ saved = << >>
    /\ hw = HWOff

\* Core boots a title: SConfig's bWii is fixed for the boot and HW::Init is entered.
HWBoot ==
    /\ hw.pass = "off"
    /\ hw.boots < MaxBoots
    /\ \E bWii \in BOOLEAN :
          hw' = [bWii |-> bWii, pass |-> "Init", boots |-> hw.boots + 1,
                 inits |-> << >>, states |-> << >>, downs |-> << >>]
    /\ UNCHANGED <<fs, m_is_active, last, p, saved>>

\* The next call of HW::Init; after the last one the machine runs.
HWInitStep ==
    /\ hw.pass = "Init"
    /\ LET calls == InitCalls(hw.bWii)
           log   == Append(hw.inits, calls[Len(hw.inits) + 1])
       IN  hw' = [hw EXCEPT !.inits = log,
                            !.pass = IF Len(log) = Len(calls) THEN "running" ELSE "Init"]
    /\ UNCHANGED <<fs, m_is_active, last, p, saved>>

\* The next call of HW::DoState; a new pass starts its log afresh.
HWDoStateStep ==
    /\ hw.pass \in {"running", "DoState"}
    /\ LET calls == DoStateCalls(hw.bWii)
           done  == IF hw.pass = "running" THEN << >> ELSE hw.states
           log   == Append(done, calls[Len(done) + 1])
       IN  hw' = [hw EXCEPT !.states = log,
                            !.pass = IF Len(log) = Len(calls) THEN "running" ELSE "DoState"]
    /\ UNCHANGED <<fs, m_is_active, last, p, saved>>

\* The next call of HW::Shutdown; after the last one the hardware is off.
HWShutdownStep ==
    /\ hw.pass \in {"running", "Shutdown"}
    /\ LET calls == ShutdownCalls(hw.bWii)
           log   == Append(hw.downs, calls[Len(hw.downs) + 1])
       IN  hw' = [hw EXCEPT !.downs = log,
                            !.pass = IF Len(log) = Len(calls) THEN "off" ELSE "Shutdown"]
    /\ UNCHANGED <<fs, m_is_active, last, p, saved>>

NextHW == HWBoot \/ HWInitStep \/ HWDoStateStep \/ HWShutdownStep

SpecHW == InitHW /\ [][NextHW]_vars

-----------------------------------------------------------------------------
(* Claims about the order of hardware start-up and shutdown *)

\* The call has been made in the log.
HWCalled(log, c) == \E i \in DOMAIN log : log[i] = c

\* Both calls have been made in the log, a ahead of b.
HWCalledBefore(log, a, b) ==
    \E i, j \in DOMAIN log : i < j /\ log[i] = a /\ log[j] = b

\* C22: hardware start-up and shutdown respect the dependencies on Memory and
\* mirror each other.  In Init, ExpansionInterface is initialized before Memory
\* and, on Wii, IOS::HLE after Memory (and a finished Wii start-up has brought
\* IOS::HLE up); in Shutdown, on Wii, IOS::HLE is shut down before Memory, and
\* Memory before ExpansionInterface; every subsystem Shutdown tears down was
\* brought up by its Init call, and any two of them are torn down in the
\* opposite order of their Init calls; CoreTiming is the first call of Init and
\* the last call of Shutdown.
C22_InitShutdownOrder ==
    /\ HWCalled(hw.inits, HWCall("Memory", "Init")) =>
          HWCalledBefore(hw.inits, HWCall("ExpansionInterface", "Init"), HWCall("Memory", "Init"))
    /\ HWCalled(hw.inits, HWCall("IOS::HLE", "Init")) =>
          HWCalledBefore(hw.inits, HWCall("Memory", "Init"), HWCall("IOS::HLE", "Init"))
    /\ (hw.bWii /\ hw.pass \notin {"off", "Init"}) =>
          HWCalled(hw.inits, HWCall("IOS::HLE", "Init"))
    /\ (hw.bWii /\ HWCalled(hw.downs, HWCall("Memory", "Shutdown"))) =>
          HWCalledBefore(hw.downs, HWCall("IOS::HLE", "Shutdown"), HWCall("Memory", "Shutdown"))
    /\ HWCalled(hw.downs, HWCall("ExpansionInterface", "Shutdown")) =>
          HWCalledBefore(hw.downs, HWCall("Memory", "Shutdown"),
                       HWCall("ExpansionInterface", "Shutdown"))
    /\ \A i \in DOMAIN hw.downs :
          /\ hw.downs[i].call = "Shutdown"
          /\ HWCalled(hw.inits, HWCall(hw.downs[i].sub, "Init"))
    /\ \A i, j \in DOMAIN hw.downs :
          i < j => HWCalledBefore(hw.inits, HWCall(hw.downs[j].sub, "Init"),
                                HWCall(hw.downs[i].sub, "Init"))
    /\ hw.inits # << >> => hw.inits[1] = HWCall("CoreTiming", "Init")
    /\ HWCalled(hw.downs, HWCall("CoreTiming", "Shutdown")) =>
          /\ hw.downs[Len(hw.downs)] = HWCall("CoreTiming", "Shutdown")
          /\ hw.pass = "off"
    /\ (hw.pass = "off" /\ hw.boots > 0) =>
          HWCalled(hw.downs, HWCall("CoreTiming", "Shutdown"))

\* A Wii boot that has run, taken a snapshot and shut down completely.
C22_Witness ==
    /\ hw.bWii /\ hw.pass = "off" /\ hw.boots > 0
    /\ Len(hw.inits) = 19 /\ Len(hw.states) = 12 /\ Len(hw.downs) = 13
    /\ hw.downs[1] = HWCall("IOS::HLE", "Shutdown")
    /\ HWCalled(hw.downs, HWCall("Memory", "Shutdown"))
    /\ hw.downs[13] = HWCall("CoreTiming", "Shutdown")

=============================================================================
